---- MODULE Spec2Model ----
(***************************************************************************)
(* A model of hooks/manager.py of the keystone charm: the worker that      *)
(* serves keystone manager calls over a Unix domain socket.                *)
(*                                                                         *)
(*   - get_keystone_manager and its retry_on_exception wrapper (the        *)
(*     Version Resolver),                                                  *)
(*   - get_manager and the module-level _keystone_manager dict (the        *)
(*     Session Cache),                                                     *)
(*   - the request loop under `if __name__ == '__main__'` (the Dispatcher).*)
(*                                                                         *)
(* The keystone client library, the backend and the socket are the         *)
(* environment: what they answer is chosen nondeterministically.           *)
(***************************************************************************)
EXTENDS Integers, Sequences, FiniteSets, TLC

(***************************************************************************)
(* Bounds of the model.                                                    *)
(***************************************************************************)
\* The number of non-sentinel messages the caller sends on the socket.
MaxRequests == 2

(***************************************************************************)
(* Python values.                                                          *)
(***************************************************************************)
\* api_version=None.  JSON integers are the other api_version values; no
\* request of the model carries a negative version, so -1 is free.
NoVersion == -1
\* api_local_endpoint=None.  An endpoint string is modelled by the list of
\* its segments, endpoint.split('/'), which is never empty for a string.
NoEndpoint == << >>
\* charm_credentials=None.
NoCredentials == "None"
\* No KeystoneManager object: manager=None in _keystone_manager, and the
\* module-level name `manager` before its first assignment.
NoManager == [id |-> 0, api_version |-> 0, endpoint |-> NoEndpoint]

\* The values of spec['api_version'] in the requests of the model: null, 0,
\* the two supported versions and an unsupported one.
ApiVersions == {NoVersion, 0, 2, 3, 4}
\* 'ks/v3' and 'ks/v2.0/'.
Endpoints == { <<"ks", "v3">>, <<"ks", "v2.0", "">> }
\* CharmCredentials tuples, compared by value.
Credentials == {"credsA", "credsB"}

\* Python truthiness of api_version, as tested by `if api_version:`.
Truthy(api_version) == api_version # NoVersion /\ api_version # 0

\* s.rsplit('/', n)[0] on the segments of s.
RSplitHead(segs, n) ==
    IF Len(segs) > n THEN SubSeq(segs, 1, Len(segs) - n) ELSE <<segs[1]>>

\* s.endswith('/') on the segments of s.
EndsWithSlash(segs) == segs[Len(segs)] = ""

(***************************************************************************)
(* Exceptions.  Every class below derives from Exception; econnrefused is  *)
(* the class the retry wrapper is armed with.                              *)
(***************************************************************************)
NoException == "none"
econnrefused == "ConnectionRefused"
InternalServerError == "InternalServerError"
UDSException == "UDSException"
ManagerException == "ManagerException"

(***************************************************************************)
(* The backend as one resolution sees it: the first `refused` contacts are *)
(* refused, then the contact raises `fault` (or succeeds when fault is     *)
(* NoException); `adminurl` is the last path segment of the admin url of   *)
(* NoException); `catalog` is what manager.api.services.list() and         *)
(* manager.api.endpoints.list() answer with.                               *)
(***************************************************************************)
\* More refusals than the wrapper makes attempts.
MaxRefused == 7
\* The longest services and endpoints listings of the model.
MaxCatalog == 2

SeqsUpTo(S, n) == UNION {[1..k -> S] : k \in 0..n}

\* hasattr(ep, 'adminurl') is False.  A url is the list of its segments,
\* adminurl.split('/'), never empty.
NoAttribute == << >>
ServiceEntries ==
    {[type |-> "identity", id |-> "s1"], [type |-> "compute", id |-> "s2"],
     [type |-> "identity", id |-> "s2"]}
AdminUrls ==
    {NoAttribute, <<"ks", "v3">>, <<"ks", "v2.0">>, <<"ks", "v3", "">>}
EndpointEntries == [service_id : {"s1", "s2"}, adminurl : AdminUrls]
Catalogs ==
    [services : SeqsUpTo(ServiceEntries, MaxCatalog),
     endpoints : SeqsUpTo(EndpointEntries, MaxCatalog)]
EmptyCatalog == [services |-> << >>, endpoints |-> << >>]
\* The catalog of one identity service with the given admin url.
CatalogOf(adminurl) ==
    [services |-> << [type |-> "identity", id |-> "s1"] >>,
     endpoints |-> << [service_id |-> "s1", adminurl |-> adminurl] >>]

Backends ==
    [refused : 0..MaxRefused,
     fault : {NoException, InternalServerError, "Unauthorized"},
     catalog : Catalogs]

\* The index a for loop over a listing breaks at, given the indices its
\* test holds at; 0 when the loop runs off the end.
BreaksAt(hits) ==
    IF hits = {} THEN 0 ELSE CHOOSE i \in hits : \A j \in hits : i <= j

\* svc_id after the loop at 157-160, given where the loop broke.
SvcIdAt(services, i) == IF i = 0 THEN "None" ELSE services[i].id

\* Lines 156-160: the id of the first service of type identity, or None.
IdentityServiceId(services) ==
    SvcIdAt(services, BreaksAt({i \in 1..Len(services) : services[i].type = "identity"}))

\* version after the loop at 162-165, given where the loop broke:
\* adminurl.split('/')[-1].
VersionAt(endpoints, i) ==
    IF i = 0 THEN "None" ELSE endpoints[i].adminurl[Len(endpoints[i].adminurl)]

\* The endpoints the test at 163 holds for.
AdminEndpointsOf(endpoints, svc_id) ==
    {i \in 1..Len(endpoints) :
        endpoints[i].service_id = svc_id /\ endpoints[i].adminurl # NoAttribute}

\* Lines 156-165: adminurl.split('/')[-1] of the first endpoint of that
\* service which has an adminurl, or None.
CatalogVersion(catalog) ==
    VersionAt(catalog.endpoints,
              BreaksAt(AdminEndpointsOf(catalog.endpoints,
                                        IdentityServiceId(catalog.services))))

\* What one contact with the backend raises, on the given attempt.
Contact(backend, attempt) ==
    IF attempt <= backend.refused THEN econnrefused ELSE backend.fault

(***************************************************************************)
(* _get_keystone_manager_class: the manager of the given version, or       *)
(* ValueError.  newId names the instance it constructs.                    *)
(***************************************************************************)
_get_keystone_manager_class(endpoint, charm_credentials, api_version, newId) ==
    IF api_version = 2
    THEN [raised |-> NoException,
          manager |-> [id |-> newId, api_version |-> 2, endpoint |-> endpoint]]
    ELSE IF api_version = 3
    THEN [raised |-> NoException,
          manager |-> [id |-> newId, api_version |-> 3, endpoint |-> endpoint]]
    ELSE [raised |-> "ValueError", manager |-> NoManager]

\* The body, were it to trust the version the endpoint path implies
\* whenever that path names one, and to read the catalog otherwise.
get_keystone_manager_body_trusts_path(endpoint, charm_credentials, api_version, backend, attempt, newId) ==
    LET named == \E i \in 1..Len(endpoint) : endpoint[i] \in {"v2.0", "v3"}
        guess == IF \E i \in 1..Len(endpoint) : endpoint[i] = "v2.0" THEN 2 ELSE 3
        found == CatalogVersion(backend.catalog)
        version == IF Truthy(api_version) THEN api_version
                   ELSE IF named THEN guess
                   ELSE IF found = "v2.0" THEN 2 ELSE 3
        m == _get_keystone_manager_class(endpoint, charm_credentials, version, newId)
    IN  IF m.raised # NoException
        THEN [raised |-> m.raised, manager |-> NoManager, constructed |-> 0]
        ELSE IF Contact(backend, attempt) # NoException
        THEN [raised |-> Contact(backend, attempt), manager |-> NoManager, constructed |-> 1]
        ELSE [raised |-> NoException, manager |-> m.manager, constructed |-> 1]

\* The return, were the provisional manager kept when the version found
\* is its own.
ReturnDetected_keeps_same(manager, base_ep, charm_credentials, version, newId) ==
    IF version = "v2.0" /\ manager.api_version # 2
    THEN [raised |-> NoException,
          manager |-> _get_keystone_manager_class(
              Append(base_ep, "v2.0"), charm_credentials, 2, newId).manager,
          constructed |-> 2]
    ELSE IF version = "v3" /\ manager.api_version # 3
    THEN [raised |-> NoException,
          manager |-> _get_keystone_manager_class(
              Append(base_ep, "v3"), charm_credentials, 3, newId).manager,
          constructed |-> 2]
    ELSE [raised |-> NoException, manager |-> manager, constructed |-> 1]

\* Lines 167-174: what get_keystone_manager returns once the catalog has
\* been read, given the provisional manager and the version found.
ReturnDetected(manager, base_ep, charm_credentials, version, newId) ==
    IF version \notin {"None", ""} /\ version = "v2.0"
    THEN [raised |-> NoException,
          manager |-> _get_keystone_manager_class(
              Append(base_ep, "v2.0"), charm_credentials, 2, newId).manager,
          constructed |-> 2]
    ELSE IF version \notin {"None", ""} /\ version = "v3"
    THEN [raised |-> NoException,
          manager |-> _get_keystone_manager_class(
              Append(base_ep, "v3"), charm_credentials, 3, newId).manager,
          constructed |-> 2]
    ELSE [raised |-> NoException, manager |-> manager, constructed |-> 1]

(***************************************************************************)
(* The body of get_keystone_manager, one attempt.  `constructed` counts    *)
(* the manager objects the attempt builds.                                 *)
(***************************************************************************)
get_keystone_manager_body(endpoint, charm_credentials, api_version, backend, attempt, newId) ==
    IF Truthy(api_version)
    THEN LET m == _get_keystone_manager_class(
                      endpoint, charm_credentials, api_version, newId)
         IN  IF m.raised # NoException
             THEN [raised |-> m.raised, manager |-> NoManager, constructed |-> 0]
             ELSE IF Contact(backend, attempt) # NoException
             THEN [raised |-> Contact(backend, attempt), manager |-> NoManager,
                   constructed |-> 0]
             ELSE [raised |-> NoException, manager |-> m.manager,
                   constructed |-> 1]
    ELSE LET guess == IF \E i \in 1..Len(endpoint) : endpoint[i] = "v2.0"
                      THEN 2 ELSE 3
             manager == _get_keystone_manager_class(
                            endpoint, charm_credentials, guess, newId).manager
             base_ep == IF EndsWithSlash(endpoint)
                        THEN RSplitHead(endpoint, 2)
                        ELSE RSplitHead(endpoint, 1)
         IN  IF Contact(backend, attempt) # NoException
             THEN [raised |-> Contact(backend, attempt), manager |-> NoManager,
                   constructed |-> 1]
             ELSE ReturnDetected(manager, base_ep, charm_credentials,
                                 CatalogVersion(backend.catalog), newId)

(***************************************************************************)
(* retry_on_exception(num_retries, base_delay, exc_type) around the body.  *)
(***************************************************************************)
num_retries == 5
base_delay == 3

\* The wrapper, were num_retries the number of attempts rather than of
\* retries.
RECURSIVE _retry_counts_attempts(_, _, _, _, _, _, _, _, _)
_retry_counts_attempts(endpoint, charm_credentials, api_version, backend, newId, retries, multiplier, attempt, sleeps) ==
    LET r == get_keystone_manager_body(endpoint, charm_credentials,
                                       api_version, backend, attempt, newId)
        delay == base_delay * multiplier
    IN  IF r.raised = econnrefused /\ retries > 1
        THEN _retry_counts_attempts(
                 endpoint, charm_credentials, api_version, backend, newId,
                 retries - 1, multiplier + 1, attempt + 1,
                 IF delay # 0 THEN Append(sleeps, delay) ELSE sleeps)
        ELSE [raised |-> r.raised, manager |-> r.manager,
              constructed |-> r.constructed, attempts |-> attempt,
              sleeps |-> sleeps]

\* The wrapper, were it armed with the default exc_type=Exception.
RECURSIVE _retry_any_exception(_, _, _, _, _, _, _, _, _)
_retry_any_exception(endpoint, charm_credentials, api_version, backend, newId, retries, multiplier, attempt, sleeps) ==
    LET r == get_keystone_manager_body(endpoint, charm_credentials,
                                       api_version, backend, attempt, newId)
        delay == base_delay * multiplier
    IN  IF r.raised # NoException /\ retries # 0
        THEN _retry_any_exception(
                 endpoint, charm_credentials, api_version, backend, newId,
                 retries - 1, multiplier + 1, attempt + 1,
                 IF delay # 0 THEN Append(sleeps, delay) ELSE sleeps)
        ELSE [raised |-> r.raised, manager |-> r.manager,
              constructed |-> r.constructed, attempts |-> attempt,
              sleeps |-> sleeps]

RECURSIVE _retry_on_exception_inner_2(_, _, _, _, _, _, _, _, _)
_retry_on_exception_inner_2(endpoint, charm_credentials, api_version, backend, newId, retries, multiplier, attempt, sleeps) ==
    LET r == get_keystone_manager_body(endpoint, charm_credentials,
                                       api_version, backend, attempt, newId)
        delay == base_delay * multiplier
    IN  IF r.raised = econnrefused /\ retries # 0
        THEN _retry_on_exception_inner_2(
                 endpoint, charm_credentials, api_version, backend, newId,
                 retries - 1, multiplier + 1, attempt + 1,
                 IF delay # 0 THEN Append(sleeps, delay) ELSE sleeps)
        ELSE [raised |-> r.raised, manager |-> r.manager,
              constructed |-> r.constructed, attempts |-> attempt,
              sleeps |-> sleeps]

\* The decorated get_keystone_manager.
get_keystone_manager(endpoint, charm_credentials, api_version, backend, newId) ==
    _retry_on_exception_inner_2(endpoint, charm_credentials, api_version,
                                backend, newId, num_retries, 1, 1, << >>)


(***************************************************************************)
(* State.                                                                  *)
(***************************************************************************)
VARIABLES
    _keystone_manager,  \* the module-level singleton dict
    allocated,          \* how many manager objects resolutions have returned
    lastCall,           \* the caller's record of its latest get_manager call
    ncalls              \* get_manager calls made so far

cacheVars == <<_keystone_manager, allocated, lastCall, ncalls>>

\* No call made yet.
NoCall ==
    [key |-> <<NoVersion, NoEndpoint, NoCredentials>>, raised |-> NoException,
     returned |-> NoManager, resolved |-> 0]

\* The three stored parameters of the singleton.
StoredKey(cache) ==
    <<cache.api_version, cache.api_local_endpoint, cache.charm_credentials>>

(***************************************************************************)
(* Variants of get_manager with a plausible slip each.                     *)
(***************************************************************************)
\* The singleton is never consulted.
get_manager_nocache(cache, api_version, api_local_endpoint, charm_credentials, backend, newId) ==
    LET r == get_keystone_manager(api_local_endpoint, charm_credentials, api_version, backend, newId)
    IN  IF api_local_endpoint = NoEndpoint \/ charm_credentials = NoCredentials
        THEN [raised |-> "RuntimeError", returned |-> NoManager, resolved |-> 0,
              attempts |-> 0, cache |-> cache]
        ELSE IF r.raised # NoException
        THEN [raised |-> r.raised, returned |-> NoManager, resolved |-> 1,
              attempts |-> r.attempts, cache |-> cache]
        ELSE [raised |-> NoException, returned |-> r.manager, resolved |-> 1,
              attempts |-> r.attempts,
              cache |-> [manager |-> r.manager, api_version |-> api_version,
                         api_local_endpoint |-> api_local_endpoint,
                         charm_credentials |-> charm_credentials]]

\* The endpoint is left out of the comparison.
get_manager_ignores_endpoint(cache, api_version, api_local_endpoint, charm_credentials, backend, newId) ==
    LET r == get_keystone_manager(api_local_endpoint, charm_credentials, api_version, backend, newId)
    IN  IF api_local_endpoint = NoEndpoint \/ charm_credentials = NoCredentials
        THEN [raised |-> "RuntimeError", returned |-> NoManager, resolved |-> 0,
              attempts |-> 0, cache |-> cache]
        ELSE IF /\ api_version = cache.api_version
                /\ charm_credentials = cache.charm_credentials
        THEN [raised |-> NoException, returned |-> cache.manager,
              resolved |-> 0, attempts |-> 0, cache |-> cache]
        ELSE IF r.raised # NoException
        THEN [raised |-> r.raised, returned |-> NoManager, resolved |-> 1,
              attempts |-> r.attempts, cache |-> cache]
        ELSE [raised |-> NoException, returned |-> r.manager, resolved |-> 1,
              attempts |-> r.attempts,
              cache |-> [manager |-> r.manager, api_version |-> api_version,
                         api_local_endpoint |-> api_local_endpoint,
                         charm_credentials |-> charm_credentials]]

\* The parameters are retained before the manager is obtained, so that
\* they stay when get_keystone_manager raises.
get_manager_retains_first(cache, api_version, api_local_endpoint, charm_credentials, backend, newId) ==
    LET r == get_keystone_manager(api_local_endpoint, charm_credentials, api_version, backend, newId)
        retained == [cache EXCEPT !.api_version = api_version,
                                  !.api_local_endpoint = api_local_endpoint,
                                  !.charm_credentials = charm_credentials]
    IN  IF api_local_endpoint = NoEndpoint \/ charm_credentials = NoCredentials
        THEN [raised |-> "RuntimeError", returned |-> NoManager, resolved |-> 0,
              attempts |-> 0, cache |-> cache]
        ELSE IF StoredKey(cache) = <<api_version, api_local_endpoint, charm_credentials>>
        THEN [raised |-> NoException, returned |-> cache.manager,
              resolved |-> 0, attempts |-> 0, cache |-> cache]
        ELSE IF r.raised # NoException
        THEN [raised |-> r.raised, returned |-> NoManager, resolved |-> 1,
              attempts |-> r.attempts, cache |-> retained]
        ELSE [raised |-> NoException, returned |-> r.manager, resolved |-> 1,
              attempts |-> r.attempts,
              cache |-> [retained EXCEPT !.manager = r.manager]]

\* The new manager is stored, the parameters that produced it are not.
get_manager_keeps_key(cache, api_version, api_local_endpoint, charm_credentials, backend, newId) ==
    LET r == get_keystone_manager(api_local_endpoint, charm_credentials, api_version, backend, newId)
    IN  IF api_local_endpoint = NoEndpoint \/ charm_credentials = NoCredentials
        THEN [raised |-> "RuntimeError", returned |-> NoManager, resolved |-> 0,
              attempts |-> 0, cache |-> cache]
        ELSE IF StoredKey(cache) = <<api_version, api_local_endpoint, charm_credentials>>
        THEN [raised |-> NoException, returned |-> cache.manager,
              resolved |-> 0, attempts |-> 0, cache |-> cache]
        ELSE IF r.raised # NoException
        THEN [raised |-> r.raised, returned |-> NoManager, resolved |-> 1,
              attempts |-> r.attempts, cache |-> cache]
        ELSE [raised |-> NoException, returned |-> r.manager, resolved |-> 1,
              attempts |-> r.attempts,
              cache |-> [cache EXCEPT !.manager = r.manager]]

\* A resolution that fails empties the singleton.
get_manager_drops_on_failure(cache, api_version, api_local_endpoint, charm_credentials, backend, newId) ==
    LET r == get_keystone_manager(api_local_endpoint, charm_credentials, api_version, backend, newId)
    IN  IF api_local_endpoint = NoEndpoint \/ charm_credentials = NoCredentials
        THEN [raised |-> "RuntimeError", returned |-> NoManager, resolved |-> 0,
              attempts |-> 0, cache |-> cache]
        ELSE IF StoredKey(cache) = <<api_version, api_local_endpoint, charm_credentials>>
        THEN [raised |-> NoException, returned |-> cache.manager,
              resolved |-> 0, attempts |-> 0, cache |-> cache]
        ELSE IF r.raised # NoException
        THEN [raised |-> r.raised, returned |-> NoManager, resolved |-> 1,
              attempts |-> r.attempts,
              cache |-> [manager |-> NoManager, api_version |-> NoVersion,
                         api_local_endpoint |-> NoEndpoint,
                         charm_credentials |-> NoCredentials]]
        ELSE [raised |-> NoException, returned |-> r.manager, resolved |-> 1,
              attempts |-> r.attempts,
              cache |-> [manager |-> r.manager, api_version |-> api_version,
                         api_local_endpoint |-> api_local_endpoint,
                         charm_credentials |-> charm_credentials]]

\* A match is not trusted when the version was left to be detected: the
\* manager is resolved anew.
get_manager_redetects(cache, api_version, api_local_endpoint, charm_credentials, backend, newId) ==
    LET r == get_keystone_manager(api_local_endpoint, charm_credentials, api_version, backend, newId)
    IN  IF api_local_endpoint = NoEndpoint \/ charm_credentials = NoCredentials
        THEN [raised |-> "RuntimeError", returned |-> NoManager, resolved |-> 0,
              attempts |-> 0, cache |-> cache]
        ELSE IF /\ StoredKey(cache) = <<api_version, api_local_endpoint, charm_credentials>>
                /\ Truthy(api_version)
        THEN [raised |-> NoException, returned |-> cache.manager,
              resolved |-> 0, attempts |-> 0, cache |-> cache]
        ELSE IF r.raised # NoException
        THEN [raised |-> r.raised, returned |-> NoManager, resolved |-> 1,
              attempts |-> r.attempts, cache |-> cache]
        ELSE [raised |-> NoException, returned |-> r.manager, resolved |-> 1,
              attempts |-> r.attempts,
              cache |-> [manager |-> r.manager, api_version |-> api_version,
                         api_local_endpoint |-> api_local_endpoint,
                         charm_credentials |-> charm_credentials]]

\* The arguments are compared with the stored ones before they are looked
\* at.
get_manager_compares_first(cache, api_version, api_local_endpoint, charm_credentials, backend, newId) ==
    LET r == get_keystone_manager(api_local_endpoint, charm_credentials, api_version, backend, newId)
    IN  IF StoredKey(cache) = <<api_version, api_local_endpoint, charm_credentials>>
        THEN [raised |-> NoException, returned |-> cache.manager,
              resolved |-> 0, attempts |-> 0, cache |-> cache]
        ELSE IF api_local_endpoint = NoEndpoint \/ charm_credentials = NoCredentials
        THEN [raised |-> "RuntimeError", returned |-> NoManager, resolved |-> 0,
              attempts |-> 0, cache |-> cache]
        ELSE IF r.raised # NoException
        THEN [raised |-> r.raised, returned |-> NoManager, resolved |-> 1,
              attempts |-> r.attempts, cache |-> cache]
        ELSE [raised |-> NoException, returned |-> r.manager, resolved |-> 1,
              attempts |-> r.attempts,
              cache |-> [manager |-> r.manager, api_version |-> api_version,
                         api_local_endpoint |-> api_local_endpoint,
                         charm_credentials |-> charm_credentials]]

(***************************************************************************)
(* get_manager: the outcome of one call on the given singleton.  `resolved`*)
(* counts the calls of get_keystone_manager it makes, `cache` is the       *)
(* singleton it leaves.                                                    *)
(***************************************************************************)
get_manager(cache, api_version, api_local_endpoint, charm_credentials, backend, newId) ==
    IF api_local_endpoint = NoEndpoint
    THEN [raised |-> "RuntimeError", returned |-> NoManager, resolved |-> 0,
          attempts |-> 0, cache |-> cache]
    ELSE IF charm_credentials = NoCredentials
    THEN [raised |-> "RuntimeError", returned |-> NoManager, resolved |-> 0,
          attempts |-> 0, cache |-> cache]
    ELSE IF /\ api_version = cache.api_version
            /\ api_local_endpoint = cache.api_local_endpoint
            /\ charm_credentials = cache.charm_credentials
    THEN [raised |-> NoException, returned |-> cache.manager, resolved |-> 0,
          attempts |-> 0, cache |-> cache]
    ELSE LET r == get_keystone_manager(api_local_endpoint, charm_credentials,
                                       api_version, backend, newId)
         IN  IF r.raised # NoException
             THEN \* the assignment of line 647 never happens
                  [raised |-> r.raised, returned |-> NoManager, resolved |-> 1,
                   attempts |-> r.attempts, cache |-> cache]
             ELSE [raised |-> NoException, returned |-> r.manager,
                   resolved |-> 1, attempts |-> r.attempts,
                   cache |-> [manager |-> r.manager,
                              api_version |-> api_version,
                              api_local_endpoint |-> api_local_endpoint,
                              charm_credentials |-> charm_credentials]]

\* The caller's record of a call with the given outcome.
CallRecord(api_version, api_local_endpoint, charm_credentials, out) ==
    [key |-> <<api_version, api_local_endpoint, charm_credentials>>,
     raised |-> out.raised, returned |-> out.returned,
     resolved |-> out.resolved]

(***************************************************************************)
(* The backends the specifications draw from: of the refusal counts, none *)
(* and more than the wrapper tolerates; the catalog only where the         *)
(* resolution gets to read it.  QuietBackend stands for the backend of a   *)
(* call that never contacts it.                                            *)
(***************************************************************************)
QuietBackend == [refused |-> 0, fault |-> NoException, catalog |-> EmptyCatalog]

ResolverBackends ==
    {[QuietBackend EXCEPT !.refused = MaxRefused]}
    \cup {[QuietBackend EXCEPT !.fault = f] : f \in {InternalServerError, "Unauthorized"}}
    \cup {[QuietBackend EXCEPT !.catalog = CatalogOf(u)] :
            u \in {NoAttribute, <<"ks", "v2.0">>, <<"ks", "v3">>, <<"ks", "v1">>}}

\* The backends that make a difference to a get_manager call.
BackendsFor(cache, api_version, api_local_endpoint, charm_credentials) ==
    IF get_manager(cache, api_version, api_local_endpoint, charm_credentials, QuietBackend, 1).resolved = 1
    THEN ResolverBackends ELSE {QuietBackend}

(***************************************************************************)
(* The session cache on its own: a caller of get_manager, any arguments.   *)
(***************************************************************************)
MaxCalls == 3

InitCache ==
    /\ _keystone_manager = [api_version |-> NoVersion,
                            api_local_endpoint |-> NoEndpoint,
                            charm_credentials |-> NoCredentials,
                            manager |-> NoManager]
    /\ allocated = 0
    /\ lastCall = NoCall
    /\ ncalls = 0

GetManagerCall(api_version, api_local_endpoint, charm_credentials, backend) ==
    /\ ncalls < MaxCalls
    /\ LET out == get_manager(_keystone_manager, api_version,
                              api_local_endpoint, charm_credentials, backend,
                              allocated + 1)
       IN  /\ _keystone_manager' = out.cache
           /\ allocated' = IF out.resolved = 1 /\ out.raised = NoException
                           THEN allocated + 1 ELSE allocated
           /\ lastCall' = CallRecord(api_version, api_local_endpoint,
                                     charm_credentials, out)
           /\ ncalls' = ncalls + 1


(***************************************************************************)
(* The manager classes: which attributes an instance has.                  *)
(***************************************************************************)
\* class KeystoneManager
BaseMethods ==
    {"resolved_api_version", "resolve_domain_id", "resolve_role_name",
     "resolve_role_id", "resolve_service_id", "resolve_service_id_by_type",
     "get_service_by_id", "delete_service_by_id", "list_services",
     "create_service", "list_endpoints", "create_role"}

\* class KeystoneManager2, were it to define the domain operations too.
Manager2Methods_with_domains ==
    BaseMethods \cup
    {"resolve_user_id", "create_endpoints", "delete_endpoint_by_id",
     "tenants_list", "resolve_tenant_id", "create_domain", "create_tenant",
     "delete_tenant", "create_user", "user_exists", "update_password",
     "roles_for_user", "add_user_role"}

\* class KeystoneManager2
Manager2Methods ==
    BaseMethods \cup
    {"resolve_user_id", "create_endpoints", "delete_endpoint_by_id",
     "tenants_list", "resolve_tenant_id", "create_tenant", "delete_tenant",
     "create_user", "user_exists", "update_password", "roles_for_user",
     "add_user_role"}

\* class KeystoneManager3
Manager3Methods ==
    BaseMethods \cup
    {"resolve_tenant_id", "resolve_domain_id", "resolve_user_id",
     "create_endpoints", "create_endpoint_by_type", "update_endpoint",
     "find_endpoint_v3", "delete_old_endpoint_v3", "tenants_list",
     "create_domain", "create_tenant", "delete_tenant", "create_user",
     "user_exists", "update_password", "get_user_details_dict",
     "update_user", "list_users_for_domain", "roles_for_user",
     "add_user_role"}

\* The attributes __init__ sets on the instance.
InstanceAttributes == {"api_version", "api"}

Methods(m) == IF m.api_version = 2 THEN Manager2Methods ELSE Manager3Methods

\* hasattr(m, name)
HasAttr(m, name) == name \in Methods(m) \cup InstanceAttributes

(***************************************************************************)
(* str.lower() on the names of the model.                                  *)
(***************************************************************************)
Names == {"Member", "member", "MEMBER", "Admin", "admin"}

Lower(name) ==
    IF name \in {"Member", "member", "MEMBER"} THEN "member" ELSE "admin"

\* The role listings the backend may answer with.
RoleLists ==
    { << >>,
      << [name |-> "member", id |-> "r-1"] >>,
      << [name |-> "Admin", id |-> "r-2"] >>,
      << [name |-> "admin", id |-> "r-2"], [name |-> "MEMBER", id |-> "r-3"],
         [name |-> "member", id |-> "r-1"] >> }

\* The index of the first entry of the listing the loop returns at; 0 when
\* the loop runs off the end of the listing.
FirstMatch(listing, name) ==
    LET hits == {i \in 1..Len(listing) : Lower(name) = Lower(listing[i].name)}
    IN  IF hits = {} THEN 0 ELSE CHOOSE i \in hits : \A j \in hits : i <= j

\* KeystoneManager.resolve_role_name; "None" is the implicit return.
resolve_role_name(roles, name) ==
    IF FirstMatch(roles, name) = 0 THEN "None"
    ELSE roles[FirstMatch(roles, name)].name

\* resolve_role_id, were the loop to run to the end of the listing and
\* return what it found last.
resolve_role_id_last(roles, name) ==
    LET hits == {i \in 1..Len(roles) : Lower(name) = Lower(roles[i].name)}
    IN  IF hits = {} THEN "None"
        ELSE roles[CHOOSE i \in hits : \A j \in hits : i >= j].id

\* KeystoneManager.resolve_role_id; "None" is the implicit return.
resolve_role_id(roles, name) ==
    IF FirstMatch(roles, name) = 0 THEN "None"
    ELSE roles[FirstMatch(roles, name)].id

\* The domain listings the backend may answer with.
DomainLists ==
    { << >>,
      << [name |-> "Admin", id |-> "d-1"] >>,
      << [name |-> "member", id |-> "d-2"], [name |-> "admin", id |-> "d-3"] >> }

\* KeystoneManager3.resolve_domain_id; "None" is the implicit return.
resolve_domain_id(domains, name) ==
    IF FirstMatch(domains, name) = 0 THEN "None"
    ELSE domains[FirstMatch(domains, name)].id

(***************************************************************************)
(* What the backend does during one invocation: the class its first call   *)
(* raises (NoException when it answers), and what it answers with.         *)
(***************************************************************************)
QuietInvocation == [fault |-> NoException, roles |-> << >>, tenants |-> 0, domains |-> << >>]

InvocationBackends ==
    {[QuietInvocation EXCEPT !.fault = f] : f \in {InternalServerError, "Unauthorized"}}
    \cup {[QuietInvocation EXCEPT !.roles = r] : r \in RoleLists}
    \cup {[QuietInvocation EXCEPT !.tenants = 1]}

\* The return value of str(api_version)-like results, by name.
VersionValue(m) == IF m.api_version = 2 THEN "2" ELSE "3"

(***************************************************************************)
(* Lines 721-725: the path walk from the manager and the call.             *)
(***************************************************************************)
\* `contacted` tells whether the call got as far as the backend.
Returns(value, contacted) == [raised |-> NoException, value |-> value, contacted |-> contacted]
Raises(class, contacted) == [raised |-> class, value |-> "None", contacted |-> contacted]

\* The methods the requests of the model name, with the number of
\* positional arguments each takes.
Arity(method) ==
    CASE method = "resolved_api_version" -> 0
      [] method = "tenants_list" -> 0
      [] method = "resolve_role_id" -> 1
      [] method = "resolve_domain_id" -> 1
      [] method = "create_domain" -> 2

\* The call _callable(*spec['args'], **spec['kwargs']) on a method.
CallMethod(m, method, args, inv) ==
    IF Len(args) # Arity(method) THEN Raises("TypeError", FALSE)
    ELSE IF method = "resolved_api_version" THEN Returns(VersionValue(m), FALSE)
    ELSE IF method = "resolve_domain_id" /\ m.api_version = 2
    THEN \* KeystoneManager.resolve_domain_id: pass
         Returns("None", FALSE)
    ELSE IF inv.fault # NoException THEN Raises(inv.fault, TRUE)
    ELSE IF method = "resolve_role_id"
    THEN Returns(resolve_role_id(inv.roles, args[1]), TRUE)
    ELSE IF method = "resolve_domain_id"
    THEN Returns(resolve_domain_id(inv.domains, args[1]), TRUE)
    ELSE IF method = "create_domain" THEN Returns("None", TRUE)
    ELSE \* tenants_list: the client's list of Tenant or Project objects
         Returns(IF inv.tenants = 0 THEN "[]" ELSE "[<Resource>]", TRUE)

\* The walk, were a missing attribute to yield a callable that returns
\* None (getattr with a default).
Invoke_lenient(m, path, args, inv) ==
    IF path = << >> THEN Raises("TypeError", FALSE)
    ELSE IF ~HasAttr(m, path[1]) \/ Len(path) > 1 THEN Returns("None", FALSE)
    ELSE IF path[1] \in InstanceAttributes THEN Raises("TypeError", FALSE)
    ELSE CallMethod(m, path[1], args, inv)

\* The getattr chain from the manager, then the call.  An attribute of the
\* manager has no attribute of the names the requests of the model use.
Invoke(m, path, args, inv) ==
    IF path = << >> THEN Raises("TypeError", FALSE)
    ELSE IF ~HasAttr(m, path[1]) THEN Raises("AttributeError", FALSE)
    ELSE IF Len(path) > 1 THEN Raises("AttributeError", FALSE)
    ELSE IF path[1] \in InstanceAttributes THEN Raises("TypeError", FALSE)
    ELSE CallMethod(m, path[1], args, inv)


(***************************************************************************)
(* The request loop (lines 706-758).                                       *)
(***************************************************************************)
VARIABLES
    pc,           \* where the loop is
    data,         \* the local `data`: the message being served
    result,       \* the local `result` of the iteration in progress
    manager,      \* the module-level name `manager` (line 716)
    received,     \* how many non-sentinel messages receive() has returned
    sent,         \* what uds_client.send() has been given, in order
    closed,       \* whether uds_client.close() has been called
    uncaught,     \* the exception that ended the process with a traceback
    exit_status   \* the exit status of the process, once it has exited

loopVars == <<pc, data, result, manager, received, sent, closed, uncaught, exit_status>>

(***************************************************************************)
(* One function of the module called on its own: the call and what came    *)
(* of it.                                                                  *)
(***************************************************************************)
VARIABLES
    fn_call,      \* the function and its arguments
    fn_return     \* its outcome, once it has returned or raised

funVars == <<fn_call, fn_return>>
vars == <<_keystone_manager, allocated, lastCall, ncalls, pc, data, result, manager, received, sent, closed, uncaught, exit_status, fn_call, fn_return>>

\* No such call.
Idle == [fn |-> "none"]
InitIdle == fn_call = Idle /\ fn_return = Idle

\* result = None
NoResult == [pytype |-> "NoneType", keys |-> {}, value |-> "None"]

(***************************************************************************)
(* Messages.  A message is its text; the text of a request is JSON, which  *)
(* json.loads turns into the dict `spec`.                                  *)
(***************************************************************************)
\* A list of the wrong length for CharmCredentials._make.
MalformedCredentials == "malformed"

Paths ==
    { <<"resolved_api_version">>, <<"resolve_role_id">>, <<"tenants_list">>,
      <<"no_such_method">>, <<"resolve_role_id", "no_such_method">>,
      <<"api_version">>, << >> }

ArgLists == { << >>, <<"Member">> }

\* The requests the caller sends: every session key with one call, and
\* every call with two session keys.
Requests ==
    [text : {"json"},
     api_version : ApiVersions,
     api_local_endpoint : Endpoints \cup {NoEndpoint},
     charm_credentials : Credentials \cup {MalformedCredentials},
     path : {<<"resolved_api_version">>},
     args : {<< >>}]
    \cup
    [text : {"json"},
     api_version : {NoVersion, 3},
     api_local_endpoint : {<<"ks", "v3">>},
     charm_credentials : {"credsA"},
     path : Paths,
     args : ArgLists]

\* A message that carries no request: only its text matters.
Text(text) ==
    [text |-> text, api_version |-> NoVersion,
     api_local_endpoint |-> NoEndpoint,
     charm_credentials |-> MalformedCredentials, path |-> << >>,
     args |-> << >>]

\* The stop sentinel, the None that receive() returns at end of stream,
\* and a text that is no JSON document.
Quit == Text("QUIT")
EndOfStream == Text("None")
Garbage == Text("garbage")

\* No message received yet; `data` between two iterations, where the loop
\* does not read it.
NoData == Text("")

Messages == Requests \cup {Garbage, Quit, EndOfStream}

\* Line 713, were it to test for the sentinel alone.
IsStop_quit_only(message) == message.text = "QUIT"

\* Line 713: data == "QUIT" or data is None
IsStop(message) == message.text = "QUIT" \/ message.text = "None"

\* json.loads(data)
json_loads(message) ==
    IF message.text = "json" THEN [raised |-> NoException, spec |-> message]
    ELSE IF message.text = "None" THEN [raised |-> "TypeError", spec |-> message]
    ELSE [raised |-> "ValueError", spec |-> message]

\* keystone_types.CharmCredentials._make(spec['charm_credentials'])
_make(fields) ==
    IF fields = MalformedCredentials
    THEN [raised |-> "TypeError", credentials |-> NoCredentials]
    ELSE [raised |-> NoException, credentials |-> fields]

(***************************************************************************)
(* Lines 715-725, the body of the try after the message is in: what it     *)
(* raises or returns, and what it leaves in the singleton, in `manager`    *)
(* and in the record of the get_manager call.                              *)
(***************************************************************************)
\* The body, were a call that raises to empty the singleton.
TryBody_forgets_on_failure(cache, glob, message, backend, inv, newId) ==
    LET decoded == json_loads(message)
        spec == decoded.spec
        creds == _make(spec.charm_credentials)
        out == get_manager(cache, spec.api_version, spec.api_local_endpoint, creds.credentials, backend, newId)
        call == CallRecord(spec.api_version, spec.api_local_endpoint, creds.credentials, out)
        r == Invoke(out.returned, spec.path, spec.args, inv)
    IN  IF decoded.raised # NoException
        THEN [raised |-> decoded.raised, value |-> "None", cache |-> cache,
              manager |-> glob, call |-> NoCall, contacted |-> FALSE]
        ELSE IF creds.raised # NoException
        THEN [raised |-> creds.raised, value |-> "None", cache |-> cache,
              manager |-> glob, call |-> NoCall, contacted |-> FALSE]
        ELSE IF out.raised # NoException
        THEN [raised |-> out.raised, value |-> "None", cache |-> out.cache,
              manager |-> glob, call |-> call, contacted |-> FALSE]
        ELSE [raised |-> r.raised, value |-> r.value,
              cache |-> IF r.raised = NoException THEN out.cache
                        ELSE [manager |-> NoManager, api_version |-> NoVersion,
                              api_local_endpoint |-> NoEndpoint,
                              charm_credentials |-> NoCredentials],
              manager |-> out.returned, call |-> call,
              contacted |-> r.contacted]

\* The body, were `manager` bound once, by the first request that gets a
\* manager, and left alone after.
TryBody_binds_once(cache, glob, message, backend, inv, newId) ==
    LET decoded == json_loads(message)
        spec == decoded.spec
        creds == _make(spec.charm_credentials)
        out == get_manager(cache, spec.api_version, spec.api_local_endpoint, creds.credentials, backend, newId)
        call == CallRecord(spec.api_version, spec.api_local_endpoint, creds.credentials, out)
        r == Invoke(out.returned, spec.path, spec.args, inv)
    IN  IF decoded.raised # NoException
        THEN [raised |-> decoded.raised, value |-> "None", cache |-> cache,
              manager |-> glob, call |-> NoCall, contacted |-> FALSE]
        ELSE IF creds.raised # NoException
        THEN [raised |-> creds.raised, value |-> "None", cache |-> cache,
              manager |-> glob, call |-> NoCall, contacted |-> FALSE]
        ELSE IF out.raised # NoException
        THEN [raised |-> out.raised, value |-> "None", cache |-> out.cache,
              manager |-> glob, call |-> call, contacted |-> FALSE]
        ELSE [raised |-> r.raised, value |-> r.value, cache |-> out.cache,
              manager |-> IF glob = NoManager THEN out.returned ELSE glob,
              call |-> call, contacted |-> r.contacted]

TryBody(cache, glob, message, backend, inv, newId) ==
    LET decoded == json_loads(message)
        spec == decoded.spec
        creds == _make(spec.charm_credentials)
        out == get_manager(cache, spec.api_version, spec.api_local_endpoint, creds.credentials, backend, newId)
        call == CallRecord(spec.api_version, spec.api_local_endpoint, creds.credentials, out)
        r == Invoke(out.returned, spec.path, spec.args, inv)
    IN  IF decoded.raised # NoException
        THEN [raised |-> decoded.raised, value |-> "None", cache |-> cache,
              manager |-> glob, call |-> NoCall, contacted |-> FALSE]
        ELSE IF creds.raised # NoException
        THEN [raised |-> creds.raised, value |-> "None", cache |-> cache,
              manager |-> glob, call |-> NoCall, contacted |-> FALSE]
        ELSE IF out.raised # NoException
        THEN [raised |-> out.raised, value |-> "None", cache |-> out.cache,
              manager |-> glob, call |-> call, contacted |-> FALSE]
        ELSE [raised |-> r.raised, value |-> r.value, cache |-> out.cache,
              manager |-> out.returned, call |-> call,
              contacted |-> r.contacted]

(***************************************************************************)
(* Lines 725-751: `result` as the try body or the except clause that takes *)
(* the exception leaves it.  The text of an error is the exception's.      *)
(***************************************************************************)
\* The except clauses, were the one for InternalServerError to set the
\* retry hint alone.
ResultAfter_retry_only(raised, value) ==
    IF raised = NoException
    THEN [pytype |-> "dict", keys |-> {"result"}, value |-> value]
    ELSE IF raised = InternalServerError
    THEN [pytype |-> "dict", keys |-> {"retry"}, value |-> raised]
    ELSE [pytype |-> "dict", keys |-> {"error"}, value |-> raised]

\* The except clauses, without the one for InternalServerError: the
\* exception is taken by `except Exception`.
ResultAfter_no_retry(raised, value) ==
    IF raised = NoException
    THEN [pytype |-> "dict", keys |-> {"result"}, value |-> value]
    ELSE [pytype |-> "dict", keys |-> {"error"}, value |-> raised]

\* The except clauses, were `except Exception` to leave result unset.
ResultAfter_silent(raised, value) ==
    IF raised = NoException
    THEN [pytype |-> "dict", keys |-> {"result"}, value |-> value]
    ELSE IF raised = InternalServerError
    THEN [pytype |-> "dict", keys |-> {"error", "retry"}, value |-> raised]
    ELSE NoResult

ResultAfter(raised, value) ==
    IF raised = NoException
    THEN [pytype |-> "dict", keys |-> {"result"}, value |-> value]
    ELSE IF raised = InternalServerError
    THEN [pytype |-> "dict", keys |-> {"error", "retry"}, value |-> raised]
    ELSE IF raised = ManagerException
    THEN \* {'error', str(e)} is a set
         [pytype |-> "set", keys |-> {}, value |-> raised]
    ELSE [pytype |-> "dict", keys |-> {"error"}, value |-> raised]

(***************************************************************************)
(* json.dumps(result, **JSON_ENCODE_OPTIONS): a dict of JSON values is     *)
(* encoded; a set, or a value holding client resource objects, is not.     *)
(***************************************************************************)
Serializable(value) == value # "[<Resource>]"

json_dumps(r) ==
    IF r.pytype # "dict" \/ ~Serializable(r.value)
    THEN [raised |-> "TypeError", keys |-> {}]
    ELSE [raised |-> NoException, keys |-> r.keys]

(***************************************************************************)
(* The loop.                                                               *)
(***************************************************************************)
InitLoop ==
    /\ pc = "WAITING_FOR_MESSAGE"
    /\ data = NoData
    /\ result = NoResult
    /\ manager = NoManager
    /\ received = 0
    /\ sent = << >>
    /\ closed = FALSE
    /\ uncaught = NoException
    /\ exit_status = "running"

Init == InitCache /\ InitLoop /\ InitIdle

\* receive() returns "QUIT" or None: break, the finally clause has no
\* result to send, exit(0).
ReceiveStop(message) ==
    /\ pc = "WAITING_FOR_MESSAGE"
    /\ IsStop(message)
    /\ data' = message
    /\ pc' = "STOPPED_CLEAN"
    /\ result' = NoResult
    /\ exit_status' = "0"
    /\ UNCHANGED <<cacheVars, manager, received, sent, closed, uncaught, funVars>>

\* receive() raises UDSException: close, sys.exit(1); the finally clause
\* has no result to send.
ReceiveFails ==
    /\ pc = "WAITING_FOR_MESSAGE"
    /\ pc' = "STOPPED_FAULT"
    /\ result' = NoResult
    /\ closed' = TRUE
    /\ exit_status' = "1"
    /\ UNCHANGED <<cacheVars, data, manager, received, sent, uncaught, funVars>>

\* receive() returns a message that does not stop the loop: the try body
\* and the except clauses.
ServeRequest(message, backend, inv) ==
    /\ pc = "WAITING_FOR_MESSAGE"
    /\ ~IsStop(message)
    /\ data' = message
    /\ LET t == TryBody(_keystone_manager, manager, message, backend, inv, allocated + 1)
       IN  /\ _keystone_manager' = t.cache
           /\ allocated' = IF t.call.resolved = 1 /\ t.call.raised = NoException
                           THEN allocated + 1 ELSE allocated
           /\ lastCall' = t.call
           /\ manager' = t.manager
           /\ result' = ResultAfter(t.raised, t.value)
    /\ received' = received + 1
    /\ pc' = "ENCODING_RESPONSE"
    /\ UNCHANGED <<ncalls, sent, closed, uncaught, exit_status, funVars>>

\* The finally clause, were the response handed to a writer that sends it
\* later: the loop goes round with the response still unsent.
SendResponse_deferred ==
    /\ pc = "ENCODING_RESPONSE"
    /\ result # NoResult => json_dumps(result).raised = NoException
    /\ pc' = "WAITING_FOR_MESSAGE"
    /\ data' = NoData
    /\ lastCall' = NoCall
    /\ UNCHANGED <<_keystone_manager, allocated, ncalls, manager, received, sent, result, closed, uncaught, exit_status, funVars>>

\* The finally clause: the result, if there is one, is encoded and sent,
\* and the loop goes round.
SendResponse ==
    /\ pc = "ENCODING_RESPONSE"
    /\ result # NoResult => json_dumps(result).raised = NoException
    /\ sent' = IF result = NoResult THEN sent
               ELSE Append(sent, [req |-> received,
                                  keys |-> json_dumps(result).keys])
    /\ pc' = "WAITING_FOR_MESSAGE"
    /\ data' = NoData
    /\ result' = NoResult
    /\ lastCall' = NoCall
    /\ UNCHANGED <<_keystone_manager, allocated, ncalls, manager, received, closed, uncaught, exit_status, funVars>>

\* The finally clause: json.dumps raises; nothing catches it, the process
\* ends with a traceback.
EncodeFails ==
    /\ pc = "ENCODING_RESPONSE"
    /\ result # NoResult
    /\ json_dumps(result).raised # NoException
    /\ pc' = "CRASHED"
    /\ uncaught' = json_dumps(result).raised
    /\ exit_status' = "1"
    /\ UNCHANGED <<cacheVars, data, result, manager, received, sent, closed, funVars>>

\* The finally clause: send() raises UDSException; nothing catches it.
SendFails ==
    /\ pc = "ENCODING_RESPONSE"
    /\ result # NoResult
    /\ json_dumps(result).raised = NoException
    /\ pc' = "CRASHED"
    /\ uncaught' = UDSException
    /\ exit_status' = "1"
    /\ UNCHANGED <<cacheVars, data, result, manager, received, sent, closed, funVars>>

\* The backends that make a difference to the request.
BackendsOf(message) ==
    IF TryBody(_keystone_manager, manager, message, QuietBackend, QuietInvocation, 1).call.resolved = 1
    THEN ResolverBackends ELSE {QuietBackend}

InvocationsOf(message, backend) ==
    IF TryBody(_keystone_manager, manager, message, backend, QuietInvocation, 1).contacted
    THEN InvocationBackends ELSE {QuietInvocation}

\* receive() returns the stop sentinel or None.
ReceiveSentinel ==
    /\ pc = "WAITING_FOR_MESSAGE"
    /\ \E message \in Messages : ReceiveStop(message)

\* receive() returns any other message the caller may send, and the
\* backend behaves in any of its ways.
ReceiveRequest ==
    /\ pc = "WAITING_FOR_MESSAGE"
    /\ received < MaxRequests
    /\ \E message \in Messages :
          \E backend \in BackendsOf(message) :
             \E inv \in InvocationsOf(message, backend) :
                ServeRequest(message, backend, inv)

Next ==
    \/ ReceiveSentinel
    \/ ReceiveFails
    \/ ReceiveRequest
    \/ SendResponse
    \/ EncodeFails
    \/ SendFails

Spec == Init /\ [][Next]_vars

(***************************************************************************)
(* The loop with operations that raise ManagerException, the class lines   *)
(* 655-656 define for them, on a channel that never fails.                 *)
(***************************************************************************)
ManagerFault == [QuietInvocation EXCEPT !.fault = ManagerException]

FaultsOf(message, backend) ==
    IF TryBody(_keystone_manager, manager, message, backend, QuietInvocation, 1).contacted
    THEN {QuietInvocation, ManagerFault} ELSE {QuietInvocation}

ReceiveRequestManagerFault ==
    /\ pc = "WAITING_FOR_MESSAGE"
    /\ received < MaxRequests
    /\ \E message \in Messages :
          \E backend \in BackendsOf(message) :
             \E inv \in FaultsOf(message, backend) :
                ServeRequest(message, backend, inv)

NextManagerFault ==
    \/ ReceiveSentinel
    \/ ReceiveRequestManagerFault
    \/ SendResponse
    \/ EncodeFails

SpecManagerFault == Init /\ [][NextManagerFault]_vars

(***************************************************************************)
(* The session cache called directly.                                      *)
(***************************************************************************)
NextCache ==
    /\ ncalls < MaxCalls
    /\ \E api_version \in ApiVersions, api_local_endpoint \in Endpoints \cup {NoEndpoint}, charm_credentials \in Credentials \cup {NoCredentials} :
         \E backend \in BackendsFor(_keystone_manager, api_version, api_local_endpoint, charm_credentials) :
            /\ GetManagerCall(api_version, api_local_endpoint, charm_credentials, backend)
            /\ UNCHANGED <<loopVars, funVars>>

SpecCache == Init /\ [][NextCache]_vars

(***************************************************************************)
(* The loop on a channel that never fails (spec section 1: the transport   *)
(* is assumed to deliver reliably): receive() and send() raise nothing.    *)
(***************************************************************************)
NextReliable ==
    \/ ReceiveSentinel
    \/ ReceiveRequest
    \/ SendResponse
    \/ EncodeFails

SpecReliable == Init /\ [][NextReliable]_vars

(***************************************************************************)
(* get_keystone_manager called on its own, once, with any arguments and    *)
(* against any backend.                                                    *)
(***************************************************************************)
ResolverEndpoints == Endpoints \cup { <<"ks">>, <<"ks", "v2.0">> }

ResolverCalls ==
    {[fn |-> "get_keystone_manager", endpoint |-> e, charm_credentials |-> "credsA",
      api_version |-> v, backend |-> [refused |-> n, fault |-> f, catalog |-> c]] :
        e \in ResolverEndpoints, v \in ApiVersions, n \in 0..MaxRefused,
        f \in {NoException, InternalServerError, "Unauthorized"},
        c \in {EmptyCatalog, CatalogOf(<<"ks", "v2.0">>), CatalogOf(<<"ks", "v3">>),
                CatalogOf(<<"ks", "v1">>)}}
    \cup
    {[fn |-> "get_keystone_manager", endpoint |-> e, charm_credentials |-> "credsA",
      api_version |-> NoVersion, backend |-> [QuietBackend EXCEPT !.catalog = c]] :
        e \in Endpoints, c \in Catalogs}

InitResolver ==
    /\ InitCache
    /\ InitLoop
    /\ fn_call \in ResolverCalls
    /\ fn_return = Idle

ApplyResolver ==
    /\ fn_call.fn = "get_keystone_manager"
    /\ fn_return = Idle
    /\ fn_return' = get_keystone_manager(fn_call.endpoint, fn_call.charm_credentials,
                                          fn_call.api_version, fn_call.backend, 1)
    /\ UNCHANGED <<cacheVars, loopVars, fn_call>>

NextResolver == ApplyResolver

SpecResolver == InitResolver /\ [][NextResolver]_vars

(***************************************************************************)
(* resolve_role_id and resolve_role_name called on their own, once, with   *)
(* any name and against any listing self.api.roles.list() answers with.    *)
(***************************************************************************)
\* The longest role listing of the model.
MaxRoles == 3

RoleEntries == [name : Names, id : {"r-1", "r-2"}]

RoleCalls ==
    [fn : {"resolve_role_id", "resolve_role_name"},
     roles : SeqsUpTo(RoleEntries, MaxRoles),
     name : Names]

InitRoles ==
    /\ InitCache
    /\ InitLoop
    /\ fn_call \in RoleCalls
    /\ fn_return = Idle

\* The call returns; `response` is what the loop makes of the value.
ApplyResolveRole ==
    /\ fn_call.fn \in {"resolve_role_id", "resolve_role_name"}
    /\ fn_return = Idle
    /\ LET value == IF fn_call.fn = "resolve_role_id"
                    THEN resolve_role_id(fn_call.roles, fn_call.name)
                    ELSE resolve_role_name(fn_call.roles, fn_call.name)
       IN  fn_return' = [raised |-> NoException, value |-> value,
                         response |-> json_dumps(ResultAfter(NoException, value))]
    /\ UNCHANGED <<cacheVars, loopVars, fn_call>>

NextRoles == ApplyResolveRole

SpecRoles == InitRoles /\ [][NextRoles]_vars

(***************************************************************************)
(* Operations of the manager called on their own: the path walk and call   *)
(* of lines 721-725 on a manager of either class, with the response the    *)
(* loop makes of the outcome.                                              *)
(***************************************************************************)
Managers ==
    {[id |-> 1, api_version |-> 2, endpoint |-> <<"ks", "v2.0">>],
     [id |-> 1, api_version |-> 3, endpoint |-> <<"ks", "v3">>]}

OperationPaths ==
    { <<"resolve_domain_id">>, <<"create_domain">>, <<"resolve_role_id">>,
      <<"tenants_list">> }

OperationArgs == { << >>, <<"Admin">>, <<"Admin", "the admin domain">> }

OperationBackends ==
    InvocationBackends \cup {[QuietInvocation EXCEPT !.domains = d] : d \in DomainLists}

InvokeCalls ==
    {[fn |-> "invoke", manager |-> m, path |-> p, args |-> a, inv |-> i] :
        m \in Managers, p \in OperationPaths, a \in OperationArgs,
        i \in OperationBackends}

ApplyInvoke ==
    /\ fn_call.fn = "invoke"
    /\ fn_return = Idle
    /\ LET r == Invoke(fn_call.manager, fn_call.path, fn_call.args, fn_call.inv)
       IN  fn_return' = [fn |-> "invoke", raised |-> r.raised, value |-> r.value,
                         response |-> json_dumps(ResultAfter(r.raised, r.value))]
    /\ UNCHANGED <<cacheVars, loopVars, fn_call>>

\* `if domain:` on an argument that is None or a string.
TruthyText(text) == text \notin {"None", ""}

\* self.api.roles.grant(role, user=user, domain=...) or (..., project=...)
Grant(role, user, scope, target) ==
    [role |-> role, user |-> user, scope |-> scope, target |-> target]

\* The outcome of the backend call number n of an operation: failAt is the
\* number of the call the backend fails, 0 when it fails none.
CallOutcome(n, failAt) == IF n = failAt THEN InternalServerError ELSE NoException

\* add_user_role of the class of m: the calls it makes on self.api.roles,
\* in order, the last of which may have raised.
add_user_role(m, user, role, tenant, domain, failAt) ==
    IF m.api_version = 2
    THEN \* KeystoneManager2: self.api.roles.add_user_role(user, role, tenant)
         [raised |-> CallOutcome(1, failAt),
          grants |-> << Grant(role, user, "tenant", tenant) >>]
    ELSE IF TruthyText(domain) /\ CallOutcome(1, failAt) # NoException
    THEN [raised |-> CallOutcome(1, failAt),
          grants |-> << Grant(role, user, "domain", domain) >>]
    ELSE IF TruthyText(domain) /\ TruthyText(tenant)
    THEN [raised |-> CallOutcome(2, failAt),
          grants |-> << Grant(role, user, "domain", domain),
                        Grant(role, user, "project", tenant) >>]
    ELSE IF TruthyText(domain)
    THEN [raised |-> NoException,
          grants |-> << Grant(role, user, "domain", domain) >>]
    ELSE IF TruthyText(tenant)
    THEN [raised |-> CallOutcome(1, failAt),
          grants |-> << Grant(role, user, "project", tenant) >>]
    ELSE [raised |-> NoException, grants |-> << >>]

AddUserRoleCalls ==
    {[fn |-> "add_user_role", manager |-> m, user |-> "u-1", role |-> r,
      tenant |-> t, domain |-> d, failAt |-> n] :
        m \in Managers, r \in {"r-1", "r-2"}, t \in {"None", "", "t-1"},
        d \in {"None", "", "d-1"}, n \in 0..2}

ApplyAddUserRole ==
    /\ fn_call.fn = "add_user_role"
    /\ fn_return = Idle
    /\ LET r == add_user_role(fn_call.manager, fn_call.user, fn_call.role,
                               fn_call.tenant, fn_call.domain, fn_call.failAt)
       IN  fn_return' = [fn |-> "add_user_role", raised |-> r.raised,
                         grants |-> r.grants]
    /\ UNCHANGED <<cacheVars, loopVars, fn_call>>

InitOperations ==
    /\ InitCache
    /\ InitLoop
    /\ fn_call \in InvokeCalls \cup AddUserRoleCalls
    /\ fn_return = Idle

NextOperations ==
    \/ ApplyInvoke
    \/ ApplyAddUserRole

SpecOperations == InitOperations /\ [][NextOperations]_vars

(***************************************************************************)
(* Properties of the request loop.                                         *)
(***************************************************************************)
\* C1: while the worker runs, every non-sentinel message gets exactly one
\* response and the k-th response sent answers the k-th such message; no
\* response is sent without a message.  The one message that may be left
\* unanswered is the one during which the worker died (CRASHED).
C1_OneResponsePerRequestInOrder ==
    /\ Len(sent) <= received
    /\ \A k \in 1..Len(sent) : sent[k].req = k
    /\ (pc \in {"WAITING_FOR_MESSAGE", "STOPPED_CLEAN", "STOPPED_FAULT"} => Len(sent) = received)
    /\ (pc \in {"ENCODING_RESPONSE", "CRASHED"} => Len(sent) = received - 1)

\* C1 witness: two requests, one failed and one served, both answered.
C1_Witness ==
    /\ pc = "WAITING_FOR_MESSAGE"
    /\ received = 2
    /\ Len(sent) = 2
    /\ sent[1].keys = {"error"}
    /\ sent[2].keys = {"result"}

\* C2: every response sent carries exactly one of the keys result and
\* error, and retry only together with error.
C2_ResultXorError ==
    \A k \in 1..Len(sent) :
        /\ ("result" \in sent[k].keys) # ("error" \in sent[k].keys)
        /\ ("retry" \in sent[k].keys => "error" \in sent[k].keys)

\* C2 witness: a response with error and retry, and one with result.
C2_Witness ==
    /\ Len(sent) = 2
    /\ sent[1].keys = {"error", "retry"}
    /\ sent[2].keys = {"result"}

\* C3, as claimed: a request whose operation returns normally, whatever it
\* returns, is answered (with result); on a reliable channel the worker
\* therefore never dies holding a result.
C3_NormalReturnAnswered ==
    ~(pc = "CRASHED" /\ "result" \in result.keys)

\* A step of the path that is no attribute of a manager, or of what the
\* step before it yields.
KnownAttributes == Manager2Methods \cup Manager3Methods \cup InstanceAttributes

MissingStep(message) ==
    /\ message.text = "json"
    /\ \/ \E i \in 1..Len(message.path) : message.path[i] \notin KnownAttributes
       \/ Len(message.path) > 1

BadRequest(message) == message.text = "garbage" \/ MissingStep(message)

\* C4: a request that does not decode, or whose path has a step that does
\* not exist, ends in an encodable response with error and without result;
\* that response is what is sent next, and the loop waits for the next
\* message.
C4_BadRequestGetsError ==
    /\ [](pc = "ENCODING_RESPONSE" /\ BadRequest(data)
            => /\ result.pytype = "dict"
               /\ "error" \in result.keys
               /\ "result" \notin result.keys
               /\ json_dumps(result).raised = NoException)
    /\ [][pc = "ENCODING_RESPONSE" /\ BadRequest(data)
            => /\ pc' = "WAITING_FOR_MESSAGE"
               /\ Len(sent') = Len(sent) + 1
               /\ "error" \in sent'[Len(sent')].keys
               /\ "result" \notin sent'[Len(sent')].keys]_vars

\* C4 witness: a bad request being answered after an earlier request got
\* its error response, so the loop went on.
C4_Witness ==
    /\ pc = "ENCODING_RESPONSE"
    /\ MissingStep(data)
    /\ result.value = "AttributeError"
    /\ Len(sent) = 1
    /\ sent[1].keys = {"error"}

\* C5, as claimed: no failure while decoding, resolving the session,
\* invoking or encoding ends the loop; the loop ends with an exception
\* only when the channel fails.
C5_OnlyChannelFailureEndsLoop ==
    pc = "CRASHED" => uncaught = UDSException

\* C6: the stop sentinel and end of stream are not answered, nothing is
\* read after them, and the process ends with exit status 0.
C6_StopIsClean ==
    /\ [](data \in {Quit, EndOfStream}
            => /\ pc = "STOPPED_CLEAN"
               /\ exit_status = "0"
               /\ uncaught = NoException
               /\ result = NoResult
               /\ Len(sent) = received)
    /\ [](pc = "STOPPED_CLEAN" => data \in {Quit, EndOfStream})
    /\ [][data' \in {Quit, EndOfStream}
            => sent' = sent /\ received' = received]_vars
    /\ [][pc = "STOPPED_CLEAN" => pc' = "STOPPED_CLEAN" /\ received' = received /\ sent' = sent]_vars

\* C6 witness: a clean stop at end of stream after a failed and a served
\* request.
C6_Witness ==
    /\ pc = "STOPPED_CLEAN"
    /\ data = EndOfStream
    /\ received = 2
    /\ sent[1].keys = {"error"}
    /\ sent[2].keys = {"result"}

(***************************************************************************)
(* Properties of the session cache, for a caller of get_manager.  A step   *)
(* that adds to ncalls is one call: lastCall is the call before it,        *)
(* lastCall' the call itself, _keystone_manager what the call found stored *)
(* and _keystone_manager' what it left.                                    *)
(***************************************************************************)
IsCall == ncalls' = ncalls + 1

\* The second of two consecutive calls with the same arguments.
SameKeyAgain == IsCall /\ ncalls >= 1 /\ lastCall'.key = lastCall.key

\* C7, as claimed: over any two consecutive calls with identical arguments
\* get_keystone_manager is called at most once, and the second call
\* returns what the first returned.
C7_Original ==
    [][SameKeyAgain
        => /\ lastCall.resolved + lastCall'.resolved <= 1
           /\ lastCall'.returned = lastCall.returned]_vars

\* C7, amended: when the first of the two calls returns a manager, the
\* second makes no call of get_keystone_manager and returns that very
\* object, so that at most one resolution serves the two.
C7_Idempotence ==
    [][SameKeyAgain /\ lastCall.raised = NoException
        => /\ lastCall'.resolved = 0
           /\ lastCall.resolved + lastCall'.resolved <= 1
           /\ lastCall'.raised = NoException
           /\ lastCall'.returned = lastCall.returned
           /\ lastCall'.returned # NoManager]_vars

\* C7 witness: the second of two identical calls, answered from the
\* singleton with the object the first one resolved.
C7_Witness ==
    /\ ncalls = 2
    /\ allocated = 1
    /\ lastCall.resolved = 0
    /\ lastCall.raised = NoException
    /\ lastCall.returned.id = 1

\* The call's arguments differ from the stored parameters.
KeyDiffers == IsCall /\ lastCall'.key # StoredKey(_keystone_manager)

\* What C8 asks of such a call: one call of get_keystone_manager, and the
\* object stored before is not what it returns.
OneNewResolution ==
    /\ lastCall'.resolved = 1
    /\ lastCall'.raised = NoException => lastCall'.returned # _keystone_manager.manager

\* C8, as claimed: every call whose key differs from the stored key.
C8_Original == [][KeyDiffers => OneNewResolution]_vars

\* C8, amended: every call with an endpoint and credentials whose key
\* differs from the stored key, in any of its three parts.
C8_Invalidation ==
    [][KeyDiffers /\ lastCall'.key[2] # NoEndpoint /\ lastCall'.key[3] # NoCredentials
        => OneNewResolution]_vars

\* C8 witness: a second object, resolved for a key that differs from the
\* first key in the credentials alone.
C8_Witness ==
    /\ ncalls = 2
    /\ allocated = 2
    /\ lastCall.resolved = 1
    /\ lastCall.returned.id = 2
    /\ lastCall.key = <<3, <<"ks", "v3">>, "credsB">>
    /\ _keystone_manager.manager.id = 2

\* C9: a call that raises leaves the four entries of the singleton as they
\* were; a call changes them only all together, to its own arguments and
\* the fresh object it returns; so the stored object always goes with the
\* stored parameters.
C9_FailedResolutionKeepsCache ==
    /\ [][IsCall /\ lastCall'.raised # NoException
            => _keystone_manager' = _keystone_manager]_vars
    /\ [][IsCall /\ _keystone_manager' # _keystone_manager
            => /\ lastCall'.resolved = 1
               /\ lastCall'.raised = NoException
               /\ StoredKey(_keystone_manager') = lastCall'.key
               /\ _keystone_manager'.manager = lastCall'.returned
               /\ lastCall'.returned.id = allocated + 1]_vars
    /\ [](/\ (_keystone_manager.manager = NoManager) = (StoredKey(_keystone_manager) = NoCall.key)
           /\ _keystone_manager.manager # NoManager
                => /\ _keystone_manager.api_local_endpoint # NoEndpoint
                   /\ _keystone_manager.charm_credentials # NoCredentials
                   /\ Truthy(_keystone_manager.api_version)
                        => /\ _keystone_manager.manager.api_version = _keystone_manager.api_version
                           /\ _keystone_manager.manager.endpoint = _keystone_manager.api_local_endpoint)

\* C9 witness: a resolution that failed after an earlier one had filled
\* the singleton, which still holds the earlier key and object.
C9_Witness ==
    /\ ncalls = 2
    /\ lastCall.resolved = 1
    /\ lastCall.raised = econnrefused
    /\ _keystone_manager.manager.id = 1
    /\ StoredKey(_keystone_manager) # lastCall.key

\* C10, as claimed: after every call, returned or raised, the stored key
\* is the key of that call.
C10_Original ==
    ncalls >= 1 => StoredKey(_keystone_manager) = lastCall.key

\* C10, amended: the singleton holds one object at most, the latest one
\* resolved; after a call that returns, the stored key is the key of that
\* call and the stored object the one returned; a call that raises leaves
\* the stored key that of the latest call that returned.
C10_KeyOfLatestReturnedCall ==
    /\ [](/\ _keystone_manager.manager.id = allocated
           /\ ncalls >= 1 /\ lastCall.raised = NoException
                => /\ StoredKey(_keystone_manager) = lastCall.key
                   /\ _keystone_manager.manager = lastCall.returned)
    /\ [][IsCall /\ lastCall'.raised # NoException
            => StoredKey(_keystone_manager') = StoredKey(_keystone_manager)]_vars

\* C10 witness: a returned call whose key replaced an earlier one.
C10_Witness ==
    /\ ncalls = 3
    /\ allocated = 2
    /\ lastCall.raised = NoException
    /\ lastCall.resolved = 0
    /\ StoredKey(_keystone_manager) = lastCall.key
    /\ _keystone_manager.manager.id = 2

\* The call's arguments equal the stored parameters.
KeyMatches == IsCall /\ lastCall'.key = StoredKey(_keystone_manager)

\* What C11 asks of such a call: it returns the stored object, calls
\* neither get_keystone_manager nor the backend, and leaves the singleton.
ServedFromCache ==
    /\ lastCall'.raised = NoException
    /\ lastCall'.returned = _keystone_manager.manager
    /\ lastCall'.resolved = 0
    /\ _keystone_manager' = _keystone_manager
    /\ allocated' = allocated

\* C11, as claimed: every call whose key equals the stored key is served
\* from the cache.
C11_Original == [][KeyMatches => ServedFromCache]_vars

\* C11, amended: every call with an endpoint and credentials whose key
\* equals the stored key is served from the cache: it returns the stored
\* object, invokes neither the resolver nor the backend, and leaves the
\* cache unchanged.
C11_CacheHit ==
    [][KeyMatches /\ lastCall'.key[2] # NoEndpoint /\ lastCall'.key[3] # NoCredentials
        => ServedFromCache /\ lastCall'.returned # NoManager]_vars

\* C11 witness: a call that left the version to be detected, served with
\* the version 2 manager an earlier such call detected.
C11_Witness ==
    /\ ncalls = 3
    /\ allocated = 1
    /\ lastCall.key[1] = NoVersion
    /\ lastCall.resolved = 0
    /\ lastCall.raised = NoException
    /\ lastCall.returned.id = 1
    /\ lastCall.returned.api_version = 2
    /\ _keystone_manager.manager = lastCall.returned

\* C19: a call without an endpoint, or without credentials, raises
\* RuntimeError whatever is stored, also when its key equals the stored
\* one; it calls no get_keystone_manager and leaves the singleton.  No call
\* therefore returns the None of the singleton as constructed.
C19_AbsentArgumentRejected ==
    /\ [][IsCall /\ (lastCall'.key[2] = NoEndpoint \/ lastCall'.key[3] = NoCredentials)
            => /\ lastCall'.raised = "RuntimeError"
               /\ lastCall'.returned = NoManager
               /\ lastCall'.resolved = 0
               /\ _keystone_manager' = _keystone_manager
               /\ allocated' = allocated]_vars
    /\ [](ncalls >= 1 /\ lastCall.raised = NoException => lastCall.returned # NoManager)

\* C19 witness: get_manager(None, None, None) on the singleton as
\* constructed, whose stored key it equals, rejected.
C19_Witness ==
    /\ ncalls = 1
    /\ lastCall.key = StoredKey(_keystone_manager)
    /\ lastCall.key = <<NoVersion, NoEndpoint, NoCredentials>>
    /\ lastCall.raised = "RuntimeError"
    /\ _keystone_manager.manager = NoManager

(***************************************************************************)
(* Further properties of the request loop.                                 *)
(***************************************************************************)
\* The iteration in progress took InternalServerError.
ServerFault == pc = "ENCODING_RESPONSE" /\ result.value = InternalServerError

\* C16: InternalServerError, out of get_manager or out of the call, ends
\* in an encodable response with error and retry; that response is sent,
\* the process keeps running and the loop waits for the next message.  No
\* other outcome of an iteration carries retry.
C16_ServerFaultAsksRetry ==
    /\ [](ServerFault
            => /\ result.keys = {"error", "retry"}
               /\ json_dumps(result).raised = NoException)
    /\ [](pc = "ENCODING_RESPONSE" /\ "retry" \in result.keys
            => result.value = InternalServerError)
    /\ [][ServerFault
            => /\ sent' = Append(sent, [req |-> received, keys |-> {"error", "retry"}])
               /\ pc' = "WAITING_FOR_MESSAGE"
               /\ exit_status' = "running"
               /\ uncaught' = NoException]_vars
    /\ [][Len(sent') > Len(sent) /\ "retry" \in sent'[Len(sent')].keys => ServerFault]_vars

\* C16 witness: the second request in hand, failed with a server fault
\* during resolution, after the first was answered with error and retry.
C16_Witness ==
    /\ ServerFault
    /\ received = 2
    /\ lastCall.raised = InternalServerError
    /\ Len(sent) = 1
    /\ sent[1].keys = {"error", "retry"}
    /\ exit_status = "running"

\* The process ended on a channel failure.
ChannelFailure ==
    pc = "STOPPED_FAULT" \/ (pc = "CRASHED" /\ uncaught = UDSException)

\* C17, as claimed: after a channel failure, in receive or in send, the
\* channel has been closed and the process has exited with a status other
\* than 0.
C17_ChannelFailureClosesAndExits ==
    ChannelFailure => closed /\ exit_status \notin {"running", "0"}

\* C18: a message is read only when every earlier one has been answered;
\* at most one request is unanswered at any time, and the singleton is
\* read and written only in serving that one request.
C18_OneRequestAtATime ==
    /\ [](/\ received - Len(sent) \in {0, 1}
           /\ pc = "WAITING_FOR_MESSAGE" => Len(sent) = received /\ result = NoResult)
    /\ [][received' # received
            => /\ received' = received + 1
               /\ pc = "WAITING_FOR_MESSAGE"
               /\ Len(sent) = received
               /\ sent' = sent]_vars
    /\ [][_keystone_manager' # _keystone_manager \/ lastCall' \notin {lastCall, NoCall}
            => received' = received + 1 /\ Len(sent) = received]_vars
    /\ [][Len(sent') > Len(sent)
            => /\ sent' = Append(sent, [req |-> received, keys |-> result.keys])
               /\ received' = received
               /\ _keystone_manager' = _keystone_manager]_vars

\* C18 witness: the second request in hand, its manager resolved anew,
\* with the first answered.
C18_Witness ==
    /\ pc = "ENCODING_RESPONSE"
    /\ received = 2
    /\ Len(sent) = 1
    /\ lastCall.resolved = 1
    /\ _keystone_manager.manager.id = 2

\* The request in hand failed in get_manager with the refusal the
\* retries did not outlast.
RetriesExhausted == pc = "ENCODING_RESPONSE" /\ lastCall.raised = econnrefused

\* C21: econnrefused that outlasts the retries leaves get_manager as
\* raised, is answered with a plain error response for the request in
\* hand, and changes neither the singleton nor `manager`; the loop then
\* waits for the next message.
C21_ExhaustedRetriesFailOneRequest ==
    /\ [](RetriesExhausted
            => /\ lastCall.resolved = 1
               /\ result = [pytype |-> "dict", keys |-> {"error"}, value |-> econnrefused]
               /\ json_dumps(result).raised = NoException)
    /\ [][received' = received + 1 /\ lastCall'.raised = econnrefused
            => /\ _keystone_manager' = _keystone_manager
               /\ allocated' = allocated
               /\ manager' = manager]_vars
    /\ [][RetriesExhausted
            => /\ sent' = Append(sent, [req |-> received, keys |-> {"error"}])
               /\ pc' = "WAITING_FOR_MESSAGE"
               /\ _keystone_manager' = _keystone_manager
               /\ exit_status' = "running"]_vars

\* C21 witness: the second request failed on exhausted retries, the first
\* answered, and the manager the first resolved still in the singleton.
C21_Witness ==
    /\ RetriesExhausted
    /\ received = 2
    /\ Len(sent) = 1
    /\ sent[1].keys = {"result"}
    /\ _keystone_manager.manager.id = 1
    /\ StoredKey(_keystone_manager) # lastCall.key

\* The operation of the request in hand raised ManagerException.
ManagerExceptionRaised == pc = "ENCODING_RESPONSE" /\ result.value = ManagerException

\* C23: when the operation of a request raises ManagerException, the next
\* step of the loop sends a response with the key error for that request
\* and the loop waits for the next message.
C23_ManagerExceptionAnswered ==
    [][ManagerExceptionRaised
        => /\ sent' = Append(sent, [req |-> received, keys |-> {"error"}])
           /\ pc' = "WAITING_FOR_MESSAGE"
           /\ exit_status' = "running"]_vars

\* get_manager returned a manager for the request in hand, and the walk
\* and the call have run on it.
SessionResolved == pc = "ENCODING_RESPONSE" /\ lastCall.returned # NoManager

\* The step takes a request in.
RequestTaken == received' = received + 1

\* C26: once get_manager has returned for a request, the singleton holds
\* the key and the manager of that request whatever the walk and the call
\* did; the finally clause leaves it; and the next request, when its key
\* is the stored one, is served the stored manager with no call of
\* get_keystone_manager and leaves the singleton as it was.
C26_RequestOutcomeKeepsCache ==
    /\ [](SessionResolved
            => /\ StoredKey(_keystone_manager) = lastCall.key
               /\ _keystone_manager.manager = lastCall.returned
               /\ _keystone_manager.manager.id = allocated)
    /\ [][SessionResolved
            => /\ _keystone_manager' = _keystone_manager
               /\ allocated' = allocated]_vars
    /\ [][RequestTaken /\ _keystone_manager.manager # NoManager
              /\ lastCall'.key = StoredKey(_keystone_manager)
            => /\ lastCall'.resolved = 0
               /\ lastCall'.raised = NoException
               /\ lastCall'.returned = _keystone_manager.manager
               /\ _keystone_manager' = _keystone_manager
               /\ allocated' = allocated]_vars

\* C26 witness: the first request resolved the manager and was answered
\* with the retry hint, for the fault of its call; the second, a call of a
\* method the manager does not have, was served the same manager.
C26_Witness ==
    /\ SessionResolved
    /\ received = 2
    /\ Len(sent) = 1
    /\ sent[1].keys = {"error", "retry"}
    /\ allocated = 1
    /\ lastCall.resolved = 0
    /\ lastCall.returned.id = 1
    /\ result.value = "AttributeError"

\* C27: when the walk and the call run, the module-level name `manager` is
\* bound to the manager get_manager returned for the request in hand,
\* which is the one the singleton holds; a request that gets no manager
\* runs no call and leaves the name as it was.
C27_ManagerIsCurrent ==
    /\ [](SessionResolved
            => /\ manager = lastCall.returned
               /\ manager = _keystone_manager.manager
               /\ manager # NoManager)
    /\ [][RequestTaken /\ lastCall'.returned = NoManager
            => /\ manager' = manager
               /\ result'.keys = {"error"} \/ result'.keys = {"error", "retry"}]_vars

\* C27 witness: the second request has a key other than the first, and
\* `manager` is the second manager, resolved for it.
C27_Witness ==
    /\ SessionResolved
    /\ received = 2
    /\ allocated = 2
    /\ lastCall.resolved = 1
    /\ lastCall.returned.id = 2
    /\ manager.id = 2
    /\ manager.api_version = 2

(***************************************************************************)
(* Properties of get_keystone_manager.                                     *)
(***************************************************************************)
Resolved == fn_call.fn = "get_keystone_manager" /\ fn_return # Idle

\* What the given attempt of the call in fn_call raises.
AttemptRaises(attempt) ==
    get_keystone_manager_body(fn_call.endpoint, fn_call.charm_credentials,
                              fn_call.api_version, fn_call.backend, attempt, 1).raised

\* C12: when every attempt raises econnrefused, get_keystone_manager makes
\* 6 attempts and then raises econnrefused; it sleeps between consecutive
\* attempts, 3, 6, 9, 12 and 15 seconds (base_delay times the index of the
\* attempt before), a non-decreasing sequence.
C12_RetryBound ==
    Resolved /\ (\A a \in 1..(num_retries + 1) : AttemptRaises(a) = econnrefused)
        => /\ fn_return.attempts = 6
           /\ fn_return.raised = econnrefused
           /\ fn_return.manager = NoManager
           /\ fn_return.sleeps = <<3, 6, 9, 12, 15>>
           /\ \A i \in 1..Len(fn_return.sleeps) :
                 /\ fn_return.sleeps[i] = base_delay * i
                 /\ i > 1 => fn_return.sleeps[i - 1] <= fn_return.sleeps[i]

\* C12 witness: a detection of the version given up after the sixth
\* refusal.
C12_Witness ==
    /\ Resolved
    /\ fn_call.api_version = NoVersion
    /\ fn_call.backend.refused = MaxRefused
    /\ fn_return.raised = econnrefused
    /\ fn_return.attempts = num_retries + 1
    /\ Len(fn_return.sleeps) = num_retries

\* The attempts of the call that raise a class other than econnrefused.
OtherFailures ==
    {a \in 1..(num_retries + 1) : AttemptRaises(a) \notin {NoException, econnrefused}}

\* C13: an attempt that raises a class other than econnrefused is the
\* last: that exception leaves get_keystone_manager at once, with no
\* further attempt and no sleep after it, however many retries remain.
C13_OtherFailuresNotRetried ==
    Resolved /\ fn_return.raised \notin {NoException, econnrefused}
        => /\ fn_return.attempts \in OtherFailures
           /\ \A a \in OtherFailures : fn_return.attempts <= a
           /\ fn_return.raised = AttemptRaises(fn_return.attempts)
           /\ Len(fn_return.sleeps) = fn_return.attempts - 1
           /\ fn_return.manager = NoManager
           /\ (AttemptRaises(1) \notin {NoException, econnrefused}
                 => fn_return.attempts = 1 /\ fn_return.sleeps = << >>)

\* C13 witness: a server fault on the third attempt, after two refusals,
\* with three retries left.
C13_Witness ==
    /\ Resolved
    /\ fn_call.backend.refused = 2
    /\ fn_return.raised = InternalServerError
    /\ fn_return.attempts = 3
    /\ fn_return.sleeps = <<3, 6>>

\* C14, as claimed: a given api_version other than 2 and 3 makes
\* get_keystone_manager raise ValueError without constructing a manager;
\* no given value is resolved by detection.
C14_UnsupportedVersionRejected ==
    Resolved /\ fn_call.api_version \notin {NoVersion, 2, 3}
        => /\ fn_return.raised = "ValueError"
           /\ fn_return.manager = NoManager
           /\ fn_return.constructed = 0

\* The version the endpoint path implies.
ProvisionalVersion(endpoint) ==
    IF "v2.0" \in {endpoint[i] : i \in 1..Len(endpoint)} THEN 2 ELSE 3

\* The last segment of the admin url of the identity service in the
\* catalog: of the first endpoint with an admin url among those of the
\* first service of type identity.  "None" when there is none.
IdentityAdminFragment(catalog) ==
    LET IsIdentity(svc) == svc.type = "identity"
        identity == SelectSeq(catalog.services, IsIdentity)
        IsAdminOf(ep) == ep.service_id = Head(identity).id /\ ep.adminurl # NoAttribute
        admin == IF identity = << >> THEN << >> ELSE SelectSeq(catalog.endpoints, IsAdminOf)
    IN  IF admin = << >> THEN "None"
        ELSE Head(admin).adminurl[Len(Head(admin).adminurl)]

\* C15: with api_version None, the manager get_keystone_manager returns
\* has version 2 when the fragment in the catalog is v2.0 and 3 when it is
\* v3; with no identity entry, or any other fragment, it is the provisional
\* manager, of version 2 when the endpoint has a v2.0 segment and of
\* version 3 otherwise.
C15_DetectedVersion ==
    Resolved /\ fn_call.api_version = NoVersion /\ fn_return.raised = NoException
        => LET fragment == IdentityAdminFragment(fn_call.backend.catalog)
           IN  /\ fragment = "v2.0" => fn_return.manager.api_version = 2
               /\ fragment = "v3" => fn_return.manager.api_version = 3
               /\ fragment \notin {"v2.0", "v3"}
                    => /\ fn_return.manager.api_version = ProvisionalVersion(fn_call.endpoint)
                       /\ fn_return.manager.endpoint = fn_call.endpoint
                       /\ fn_return.constructed = 1

\* C15 witness: an endpoint with a v2.0 segment, a catalog whose second
\* service is the identity service with admin url ks/v3, and a version 3
\* manager returned.
C15_Witness ==
    /\ Resolved
    /\ fn_call.api_version = NoVersion
    /\ fn_call.endpoint = <<"ks", "v2.0", "">>
    /\ Len(fn_call.backend.catalog.services) = 2
    /\ fn_call.backend.catalog.services[1].type = "compute"
    /\ IdentityAdminFragment(fn_call.backend.catalog) = "v3"
    /\ fn_return.manager.api_version = 3
    /\ fn_return.manager.endpoint = <<"ks", "v3">>

\* get_keystone_manager has returned a manager after detecting the version.
Detected == Resolved /\ ~Truthy(fn_call.api_version) /\ fn_return.raised = NoException

\* The version a fragment names, 0 when it names none that is supported.
FragmentVersion(fragment) ==
    IF fragment = "v2.0" THEN 2 ELSE IF fragment = "v3" THEN 3 ELSE 0

\* C22 as stated: while detecting, a second manager is constructed only
\* when the fragment found names a supported version other than the
\* provisional one; when it names the provisional version, the provisional
\* manager itself is returned and one manager is constructed.
C22_Original ==
    Detected
        => LET found == FragmentVersion(IdentityAdminFragment(fn_call.backend.catalog))
               guess == ProvisionalVersion(fn_call.endpoint)
           IN  /\ fn_return.constructed = 2 => found # 0 /\ found # guess
               /\ found = guess
                    => /\ fn_return.constructed = 1
                       /\ fn_return.manager.endpoint = fn_call.endpoint

\* C22: while detecting, a second manager is constructed exactly when the
\* fragment found names a supported version, whether or not it is the
\* provisional one, and the manager returned is then the second, for the
\* base endpoint followed by the fragment; with any other fragment, or
\* none, the provisional manager itself is returned and one manager is
\* constructed.
C22_SecondManagerForSupportedFragment ==
    Detected
        => LET fragment == IdentityAdminFragment(fn_call.backend.catalog)
               found == FragmentVersion(fragment)
               base_ep == IF EndsWithSlash(fn_call.endpoint)
                          THEN RSplitHead(fn_call.endpoint, 2)
                          ELSE RSplitHead(fn_call.endpoint, 1)
           IN  /\ fn_return.constructed \in {1, 2}
               /\ fn_return.constructed = 2 <=> found # 0
               /\ found # 0
                    => /\ fn_return.manager.api_version = found
                       /\ fn_return.manager.endpoint = Append(base_ep, fragment)
               /\ found = 0
                    => /\ fn_return.manager.api_version = ProvisionalVersion(fn_call.endpoint)
                       /\ fn_return.manager.endpoint = fn_call.endpoint

\* C22 witness: the endpoint ks/v2.0/ makes the provisional manager one of
\* version 2, the catalog names v2.0 as well, and a second manager, for
\* ks/v2.0, was constructed and returned.
C22_Witness ==
    /\ Detected
    /\ fn_call.endpoint = <<"ks", "v2.0", "">>
    /\ ProvisionalVersion(fn_call.endpoint) = 2
    /\ IdentityAdminFragment(fn_call.backend.catalog) = "v2.0"
    /\ fn_return.constructed = 2
    /\ fn_return.manager.api_version = 2
    /\ fn_return.manager.endpoint = <<"ks", "v2.0">>

(***************************************************************************)
(* Properties of the name resolution.                                      *)
(***************************************************************************)
\* The names that differ in case only.
CaseClasses == {{"Member", "member", "MEMBER"}, {"Admin", "admin"}}
SameIgnoringCase(a, b) == \E c \in CaseClasses : a \in c /\ b \in c

\* The entries of the listing whose name is the given one, case aside.
Matching(roles, name) ==
    {i \in 1..Len(roles) : SameIgnoringCase(roles[i].name, name)}

\* C20: resolve_role_id returns the id, and resolve_role_name the name as
\* listed, of the first entry of the listing whose name equals the given
\* name case-insensitively; with no such entry they return None, which
\* the loop answers with a result, not with an error.
C20_FirstCaseInsensitiveMatch ==
    fn_call.fn \in {"resolve_role_id", "resolve_role_name"} /\ fn_return # Idle
        => LET hits == Matching(fn_call.roles, fn_call.name)
           IN  /\ fn_return.raised = NoException
               /\ fn_return.response.raised = NoException
               /\ fn_return.response.keys = {"result"}
               /\ hits = {} => fn_return.value = "None"
               /\ hits # {}
                    => \E i \in hits :
                          /\ \A j \in hits : i <= j
                          /\ fn_call.fn = "resolve_role_id" => fn_return.value = fn_call.roles[i].id
                          /\ fn_call.fn = "resolve_role_name" => fn_return.value = fn_call.roles[i].name

\* C20 witness: "Member" resolved to the id of MEMBER, listed second,
\* ahead of member, listed third with another id.
C20_Witness ==
    /\ fn_call.fn = "resolve_role_id"
    /\ fn_call.name = "Member"
    /\ fn_call.roles = << [name |-> "Admin", id |-> "r-1"],
                          [name |-> "MEMBER", id |-> "r-2"],
                          [name |-> "member", id |-> "r-1"] >>
    /\ fn_return # Idle
    /\ fn_return.value = "r-2"

(***************************************************************************)
(* Properties of the operations of the manager.                            *)
(***************************************************************************)
\* The path walk and call on a manager has been run.
Invoked == fn_call.fn = "invoke" /\ fn_return # Idle

\* A method of KeystoneManager3 the class of the manager does not define.
OnlyOnManager3(method) == method \in Manager3Methods \ Manager2Methods

RoleAdded == fn_call.fn = "add_user_role" /\ fn_return # Idle /\ fn_call.manager.api_version = 3

\* C25: add_user_role of KeystoneManager3 makes at most one grant call,
\* whatever tenant and domain are.
C25_AtMostOneGrant == RoleAdded => Len(fn_return.grants) <= 1

====
